---- MODULE Spec2Model ----
(***************************************************************************)
(* StoryCraft (src/storycraft.py, src/webapp.py): the prompt analyzer      *)
(* PromptAnalyzer.analyze_prompt as a state machine over one call and over *)
(* several calls, the command-line program and the web /generate handler.  *)
(*                                                                         *)
(* A Python str is modelled as a sequence of one-character strings, so     *)
(* that lower(), the substring test `keyword in prompt_lower`, re.search   *)
(* and strip() are computed character by character as the interpreter      *)
(* computes them.  The empty str is <<>>.                                  *)
(***************************************************************************)
EXTENDS Integers, Sequences, FiniteSets, TLC

\* Bounds of the model: the number of vocabulary words, respectively of
\* phrase fragments, a generated prompt is made of.
MaxWords == 3
MaxFragments == 2

(***************************************************************************)
(* Characters                                                              *)
(***************************************************************************)

\* str.lower() on one character (ASCII letters).
CharLower(c) ==
    CASE c = "A" -> "a" [] c = "B" -> "b" [] c = "C" -> "c" [] c = "D" -> "d"
      [] c = "E" -> "e" [] c = "F" -> "f" [] c = "G" -> "g" [] c = "H" -> "h"
      [] c = "I" -> "i" [] c = "J" -> "j" [] c = "K" -> "k" [] c = "L" -> "l"
      [] c = "M" -> "m" [] c = "N" -> "n" [] c = "O" -> "o" [] c = "P" -> "p"
      [] c = "Q" -> "q" [] c = "R" -> "r" [] c = "S" -> "s" [] c = "T" -> "t"
      [] c = "U" -> "u" [] c = "V" -> "v" [] c = "W" -> "w" [] c = "X" -> "x"
      [] c = "Y" -> "y" [] c = "Z" -> "z" [] OTHER -> c

\* str.lower(): prompt.lower() at line 96.
Lower(s) == [i \in 1..Len(s) |-> CharLower(s[i])]

\* The characters \s matches and str.strip() removes.
Whitespace == {" ", "\t", "\n", "\r", "\f"}

\* The character class [\.,\s] that ends a capture.
Terminators == {".", ","} \cup Whitespace

\* What `.` matches: any character but a newline (no re.DOTALL).
IsDot(c) == c # "\n"

(***************************************************************************)
(* The keyword tables of PromptAnalyzer.__init__.  A dict iterates in      *)
(* insertion order, so each table is the sequence of its items.            *)
(***************************************************************************)

genre_keywords ==
    << [name |-> "fantasy", keywords |-> <<
           <<"m", "a", "g", "i", "c">>,  \* magic
           <<"w", "i", "z", "a", "r", "d">>,  \* wizard
           <<"d", "r", "a", "g", "o", "n">>,  \* dragon
           <<"f", "a", "i", "r", "y">>,  \* fairy
           <<"e", "n", "c", "h", "a", "n", "t", "e", "d">>,  \* enchanted
           <<"s", "p", "e", "l", "l">>,  \* spell
           <<"m", "y", "t", "h", "i", "c", "a", "l">>,  \* mythical
           <<"m", "a", "g", "i", "c", "a", "l">>,  \* magical
           <<"f", "a", "n", "t", "a", "s", "y">>   \* fantasy
       >>],
       [name |-> "sci-fi", keywords |-> <<
           <<"s", "p", "a", "c", "e">>,  \* space
           <<"a", "l", "i", "e", "n">>,  \* alien
           <<"r", "o", "b", "o", "t">>,  \* robot
           <<"f", "u", "t", "u", "r", "e">>,  \* future
           <<"t", "e", "c", "h", "n", "o", "l", "o", "g", "y">>,  \* technology
           <<"s", "p", "a", "c", "e", "s", "h", "i", "p">>,  \* spaceship
           <<"l", "a", "s", "e", "r">>,  \* laser
           <<"c", "y", "b", "o", "r", "g">>,  \* cyborg
           <<"s", "c", "i", "-", "f", "i">>,  \* sci-fi
           <<"s", "c", "i", "e", "n", "c", "e", " ", "f", "i", "c", "t", "i", "o", "n">>   \* science fiction
       >>],
       [name |-> "mystery", keywords |-> <<
           <<"d", "e", "t", "e", "c", "t", "i", "v", "e">>,  \* detective
           <<"m", "u", "r", "d", "e", "r">>,  \* murder
           <<"c", "l", "u", "e">>,  \* clue
           <<"i", "n", "v", "e", "s", "t", "i", "g", "a", "t", "i", "o", "n">>,  \* investigation
           <<"s", "u", "s", "p", "e", "c", "t">>,  \* suspect
           <<"c", "r", "i", "m", "e">>,  \* crime
           <<"m", "y", "s", "t", "e", "r", "y">>,  \* mystery
           <<"s", "o", "l", "v", "e">>   \* solve
       >>],
       [name |-> "horror", keywords |-> <<
           <<"s", "c", "a", "r", "y">>,  \* scary
           <<"g", "h", "o", "s", "t">>,  \* ghost
           <<"m", "o", "n", "s", "t", "e", "r">>,  \* monster
           <<"h", "a", "u", "n", "t", "e", "d">>,  \* haunted
           <<"n", "i", "g", "h", "t", "m", "a", "r", "e">>,  \* nightmare
           <<"t", "e", "r", "r", "o", "r">>,  \* terror
           <<"h", "o", "r", "r", "o", "r">>,  \* horror
           <<"f", "r", "i", "g", "h", "t", "e", "n", "i", "n", "g">>   \* frightening
       >>],
       [name |-> "romance", keywords |-> <<
           <<"l", "o", "v", "e">>,  \* love
           <<"r", "o", "m", "a", "n", "c", "e">>,  \* romance
           <<"d", "a", "t", "i", "n", "g">>,  \* dating
           <<"r", "e", "l", "a", "t", "i", "o", "n", "s", "h", "i", "p">>,  \* relationship
           <<"w", "e", "d", "d", "i", "n", "g">>,  \* wedding
           <<"r", "o", "m", "a", "n", "t", "i", "c">>,  \* romantic
           <<"h", "e", "a", "r", "t">>,  \* heart
           <<"c", "o", "u", "p", "l", "e">>   \* couple
       >>],
       [name |-> "adventure", keywords |-> <<
           <<"j", "o", "u", "r", "n", "e", "y">>,  \* journey
           <<"q", "u", "e", "s", "t">>,  \* quest
           <<"e", "x", "p", "l", "o", "r", "e">>,  \* explore
           <<"a", "d", "v", "e", "n", "t", "u", "r", "e">>,  \* adventure
           <<"t", "r", "e", "a", "s", "u", "r", "e">>,  \* treasure
           <<"e", "x", "p", "e", "d", "i", "t", "i", "o", "n">>,  \* expedition
           <<"t", "r", "a", "v", "e", "l">>   \* travel
       >>],
       [name |-> "thriller", keywords |-> <<
           <<"c", "h", "a", "s", "e">>,  \* chase
           <<"e", "s", "c", "a", "p", "e">>,  \* escape
           <<"d", "a", "n", "g", "e", "r">>,  \* danger
           <<"s", "u", "s", "p", "e", "n", "s", "e">>,  \* suspense
           <<"t", "h", "r", "i", "l", "l", "e", "r">>,  \* thriller
           <<"a", "c", "t", "i", "o", "n">>,  \* action
           <<"p", "u", "r", "s", "u", "i", "t">>   \* pursuit
       >>],
       [name |-> "historical", keywords |-> <<
           <<"m", "e", "d", "i", "e", "v", "a", "l">>,  \* medieval
           <<"a", "n", "c", "i", "e", "n", "t">>,  \* ancient
           <<"h", "i", "s", "t", "o", "r", "i", "c", "a", "l">>,  \* historical
           <<"c", "e", "n", "t", "u", "r", "y">>,  \* century
           <<"w", "a", "r">>,  \* war
           <<"k", "i", "n", "g", "d", "o", "m">>,  \* kingdom
           <<"e", "m", "p", "i", "r", "e">>   \* empire
       >>],
       [name |-> "comedy", keywords |-> <<
           <<"f", "u", "n", "n", "y">>,  \* funny
           <<"h", "u", "m", "o", "r">>,  \* humor
           <<"l", "a", "u", "g", "h">>,  \* laugh
           <<"j", "o", "k", "e">>,  \* joke
           <<"c", "o", "m", "e", "d", "y">>,  \* comedy
           <<"h", "i", "l", "a", "r", "i", "o", "u", "s">>,  \* hilarious
           <<"a", "m", "u", "s", "i", "n", "g">>   \* amusing
       >>],
       [name |-> "contemporary", keywords |-> <<
           <<"m", "o", "d", "e", "r", "n">>,  \* modern
           <<"t", "o", "d", "a", "y">>,  \* today
           <<"c", "u", "r", "r", "e", "n", "t">>,  \* current
           <<"r", "e", "a", "l", "i", "s", "t", "i", "c">>,  \* realistic
           <<"e", "v", "e", "r", "y", "d", "a", "y">>   \* everyday
       >>] >>

length_keywords ==
    << [name |-> "short", keywords |-> <<
           <<"s", "h", "o", "r", "t">>,  \* short
           <<"b", "r", "i", "e", "f">>,  \* brief
           <<"q", "u", "i", "c", "k">>,  \* quick
           <<"f", "l", "a", "s", "h">>,  \* flash
           <<"m", "i", "c", "r", "o">>   \* micro
       >>],
       [name |-> "medium", keywords |-> <<
           <<"m", "e", "d", "i", "u", "m">>,  \* medium
           <<"r", "e", "g", "u", "l", "a", "r">>,  \* regular
           <<"s", "t", "a", "n", "d", "a", "r", "d">>   \* standard
       >>],
       [name |-> "long", keywords |-> <<
           <<"l", "o", "n", "g">>,  \* long
           <<"d", "e", "t", "a", "i", "l", "e", "d">>,  \* detailed
           <<"e", "x", "t", "e", "n", "d", "e", "d">>,  \* extended
           <<"c", "o", "m", "p", "r", "e", "h", "e", "n", "s", "i", "v", "e">>   \* comprehensive
       >>],
       [name |-> "epic", keywords |-> <<
           <<"e", "p", "i", "c">>,  \* epic
           <<"s", "a", "g", "a">>,  \* saga
           <<"m", "a", "s", "s", "i", "v", "e">>,  \* massive
           <<"h", "u", "g", "e">>,  \* huge
           <<"e", "n", "o", "r", "m", "o", "u", "s">>   \* enormous
       >>] >>

tone_keywords ==
    << [name |-> "dark", keywords |-> <<
           <<"d", "a", "r", "k">>,  \* dark
           <<"g", "r", "i", "m">>,  \* grim
           <<"s", "e", "r", "i", "o", "u", "s">>,  \* serious
           <<"s", "o", "m", "b", "e", "r">>,  \* somber
           <<"t", "r", "a", "g", "i", "c">>   \* tragic
       >>],
       [name |-> "light", keywords |-> <<
           <<"l", "i", "g", "h", "t">>,  \* light
           <<"c", "h", "e", "e", "r", "f", "u", "l">>,  \* cheerful
           <<"h", "a", "p", "p", "y">>,  \* happy
           <<"o", "p", "t", "i", "m", "i", "s", "t", "i", "c">>,  \* optimistic
           <<"b", "r", "i", "g", "h", "t">>   \* bright
       >>],
       [name |-> "humorous", keywords |-> <<
           <<"f", "u", "n", "n", "y">>,  \* funny
           <<"h", "u", "m", "o", "r", "o", "u", "s">>,  \* humorous
           <<"c", "o", "m", "e", "d", "i", "c">>,  \* comedic
           <<"a", "m", "u", "s", "i", "n", "g">>,  \* amusing
           <<"w", "i", "t", "t", "y">>   \* witty
       >>],
       [name |-> "dramatic", keywords |-> <<
           <<"d", "r", "a", "m", "a", "t", "i", "c">>,  \* dramatic
           <<"i", "n", "t", "e", "n", "s", "e">>,  \* intense
           <<"e", "m", "o", "t", "i", "o", "n", "a", "l">>,  \* emotional
           <<"p", "o", "w", "e", "r", "f", "u", "l">>   \* powerful
       >>],
       [name |-> "mysterious", keywords |-> <<
           <<"m", "y", "s", "t", "e", "r", "i", "o", "u", "s">>,  \* mysterious
           <<"e", "n", "i", "g", "m", "a", "t", "i", "c">>,  \* enigmatic
           <<"c", "r", "y", "p", "t", "i", "c">>,  \* cryptic
           <<"p", "u", "z", "z", "l", "i", "n", "g">>   \* puzzling
       >>] >>


(***************************************************************************)
(* The patterns of PromptAnalyzer.__init__.  Each has the shape            *)
(*     prefix (?:opt1|opt2|...)? (.+?) tail [\.,\s]                        *)
(* with the character class present when class is TRUE.                    *)
(***************************************************************************)

character_patterns ==
    \* r"about (?:a |an )?(.+?) who"
    << [prefix |-> <<"a", "b", "o", "u", "t", " ">>,
        optional |-> << <<"a", " ">>, <<"a", "n", " ">> >>,
        tail |-> <<" ", "w", "h", "o">>, class |-> FALSE],
    \* r"protagonist (?:is |named |called )?(.+?)[\.,\s]"
       [prefix |-> <<"p", "r", "o", "t", "a", "g", "o", "n", "i", "s", "t", " ">>,
        optional |-> << <<"i", "s", " ">>, <<"n", "a", "m", "e", "d", " ">>, <<"c", "a", "l", "l", "e", "d", " ">> >>,
        tail |-> <<>>, class |-> TRUE],
    \* r"main character (?:is |named |called )?(.+?)[\.,\s]"
       [prefix |-> <<"m", "a", "i", "n", " ", "c", "h", "a", "r", "a", "c", "t", "e", "r", " ">>,
        optional |-> << <<"i", "s", " ">>, <<"n", "a", "m", "e", "d", " ">>, <<"c", "a", "l", "l", "e", "d", " ">> >>,
        tail |-> <<>>, class |-> TRUE],
    \* r"story of (?:a |an )?(.+?)[\.,\s]"
       [prefix |-> <<"s", "t", "o", "r", "y", " ", "o", "f", " ">>,
        optional |-> << <<"a", " ">>, <<"a", "n", " ">> >>,
        tail |-> <<>>, class |-> TRUE] >>

setting_patterns ==
    \* r"set in (.+?)[\.,\s]"
    << [prefix |-> <<"s", "e", "t", " ", "i", "n", " ">>,
        optional |-> <<  >>,
        tail |-> <<>>, class |-> TRUE],
    \* r"takes place in (.+?)[\.,\s]"
       [prefix |-> <<"t", "a", "k", "e", "s", " ", "p", "l", "a", "c", "e", " ", "i", "n", " ">>,
        optional |-> <<  >>,
        tail |-> <<>>, class |-> TRUE],
    \* r"located in (.+?)[\.,\s]"
       [prefix |-> <<"l", "o", "c", "a", "t", "e", "d", " ", "i", "n", " ">>,
        optional |-> <<  >>,
        tail |-> <<>>, class |-> TRUE],
    \* r"world of (.+?)[\.,\s]"
       [prefix |-> <<"w", "o", "r", "l", "d", " ", "o", "f", " ">>,
        optional |-> <<  >>,
        tail |-> <<>>, class |-> TRUE] >>

(***************************************************************************)
(* StoryConfig: the dataclass and its defaults.                            *)
(***************************************************************************)
\* Variant: a record whose classification fields have no defaults.
StoryConfigUnset ==
    [genre |-> "", style |-> "narrative", length |-> "",
     tone |-> "", protagonist |-> <<>>, setting |-> <<>>,
     theme |-> <<>>, original_prompt |-> <<>>]

StoryConfig ==
    [genre |-> "general", style |-> "narrative", length |-> "medium",
     tone |-> "neutral", protagonist |-> <<>>, setting |-> <<>>,
     theme |-> <<>>, original_prompt |-> <<>>]

(***************************************************************************)
(* Keyword matching                                                        *)
(***************************************************************************)

\* An ASCII letter.
IsLetter(c) == CharLower(c) \in
    {"a", "b", "c", "d", "e", "f", "g", "h", "i", "j", "k", "l", "m",
     "n", "o", "p", "q", "r", "s", "t", "u", "v", "w", "x", "y", "z"}

\* Variant: containment as a whole word only (as \bkeyword\b would test).
ContainsWord(s, keyword) ==
    \E i \in 1..(Len(s) - Len(keyword) + 1) :
        /\ \A j \in 1..Len(keyword) : s[i + j - 1] = keyword[j]
        /\ i > 1 => ~IsLetter(s[i - 1])
        /\ i + Len(keyword) <= Len(s) => ~IsLetter(s[i + Len(keyword)])

\* `keyword in prompt_lower`: str containment.
Contains(s, keyword) ==
    \E i \in 1..(Len(s) - Len(keyword) + 1) :
        \A j \in 1..Len(keyword) : s[i + j - 1] = keyword[j]

\* Variant: every occurrence of a keyword counts (str.count).
ScorePerOccurrence(s, keywords) ==
    Cardinality({<<k, i>> \in (1..Len(keywords)) \X (1..Len(s)) :
                    /\ i + Len(keywords[k]) - 1 <= Len(s)
                    /\ \A j \in 1..Len(keywords[k]) : s[i + j - 1] = keywords[k][j]})

\* sum(1 for keyword in keywords if keyword in prompt_lower)
Score(s, keywords) ==
    Cardinality({k \in 1..Len(keywords) : Contains(s, keywords[k])})

\* The dict genre_scores after the loop of lines 100-103: the genres that
\* score above 0, in table order, each with its score.
GenreScoresOf(table, s) ==
    LET all == [i \in 1..Len(table) |->
                   [key |-> table[i].name,
                    value |-> Score(s, table[i].keywords)]]
    IN  SelectSeq(all, LAMBDA e : e.value > 0)

GenreScores(s) == GenreScoresOf(genre_keywords, s)

\* max(d, key=d.get) scans d in order and keeps the first key with the
\* largest value: a later key replaces the best only if strictly larger.
RECURSIVE MaxFrom(_, _, _)
MaxFrom(d, k, best) ==
    IF k > Len(d) THEN best
    ELSE MaxFrom(d, k + 1, IF d[k].value > d[best].value THEN k ELSE best)

\* Variant: the last key with the largest value.
MaxKeyLast(d) ==
    d[CHOOSE i \in 1..Len(d) :
          /\ \A j \in 1..Len(d) : d[j].value <= d[i].value
          /\ \A j \in (i + 1)..Len(d) : d[j].value < d[i].value].key

MaxKey(d) == d[MaxFrom(d, 2, 1)].key

\* Lines 105-106: if genre_scores: config.genre = max(...)
DetectGenre(scores, current) ==
    IF scores # <<>> THEN MaxKey(scores) ELSE current

\* Variant: the loop variable is used after the loop, so that a table none
\* of whose keywords occurs leaves its last name.
RECURSIVE FirstWithKeywordFallthrough(_, _, _, _)
FirstWithKeywordFallthrough(table, s, k, current) ==
    IF k > Len(table) THEN table[Len(table)].name
    ELSE IF \E n \in 1..Len(table[k].keywords) : Contains(s, table[k].keywords[n])
         THEN table[k].name
         ELSE FirstWithKeywordFallthrough(table, s, k + 1, current)

\* Variant: no break, so that the last name with a keyword wins.
RECURSIVE FirstWithKeywordNoBreak(_, _, _, _)
FirstWithKeywordNoBreak(table, s, k, current) ==
    IF k > Len(table) THEN current
    ELSE FirstWithKeywordNoBreak(table, s, k + 1,
            IF \E n \in 1..Len(table[k].keywords) : Contains(s, table[k].keywords[n])
            THEN table[k].name ELSE current)

\* for name, keywords in table.items():
\*     if any(keyword in prompt_lower for keyword in keywords): field = name; break
RECURSIVE FirstWithKeyword(_, _, _, _)
FirstWithKeyword(table, s, k, current) ==
    IF k > Len(table) THEN current
    ELSE IF \E n \in 1..Len(table[k].keywords) : Contains(s, table[k].keywords[n])
         THEN table[k].name
         ELSE FirstWithKeyword(table, s, k + 1, current)

(***************************************************************************)
(* re.search(pattern, prompt, re.IGNORECASE)                               *)
(***************************************************************************)

Min(S) == CHOOSE x \in S : \A y \in S : x <= y
Max(S) == CHOOSE x \in S : \A y \in S : x >= y

\* The literal lit matches s at position i, ignoring case (the literals of
\* the patterns are lower case).
MatchLiteral(s, i, lit) ==
    /\ i + Len(lit) - 1 <= Len(s)
    /\ \A k \in 1..Len(lit) : CharLower(s[i + k - 1]) = lit[k]

\* What follows the capture matches at position j: the tail, then one
\* character of [\.,\s] when the pattern ends in the class.
MatchEnd(s, j, pat) ==
    /\ MatchLiteral(s, j, pat.tail)
    /\ pat.class =>
          /\ j + Len(pat.tail) <= Len(s)
          /\ s[j + Len(pat.tail)] \in Terminators

\* (.+?) from position j: the least n >= 1 such that n characters match `.`
\* and the rest of the pattern matches after them; 0 when there is none.
CaptureLength(s, j, pat) ==
    LET fits == {n \in 1..(Len(s) - j + 1) :
                    /\ \A k \in 0..(n - 1) : IsDot(s[j + k])
                    /\ MatchEnd(s, j + n, pat)}
    IN  IF fits = {} THEN 0 ELSE Min(fits)

\* Variant: the optional group is never taken (as a lazy (?:...)?? that the
\* capture always satisfies first).
TryOptionalSkipped(s, j, pat, k) ==
    [start |-> j, len |-> CaptureLength(s, j, pat)]

\* (?:opt1|opt2|...)? is greedy: the alternatives are tried in order, and
\* the group is skipped only when none of them leads to a match.  The
\* result is where the capture starts and its length (0: no match).
RECURSIVE TryOptional(_, _, _, _)
TryOptional(s, j, pat, k) ==
    IF k > Len(pat.optional)
    THEN [start |-> j, len |-> CaptureLength(s, j, pat)]
    ELSE IF /\ MatchLiteral(s, j, pat.optional[k])
            /\ CaptureLength(s, j + Len(pat.optional[k]), pat) > 0
         THEN [start |-> j + Len(pat.optional[k]),
               len |-> CaptureLength(s, j + Len(pat.optional[k]), pat)]
         ELSE TryOptional(s, j, pat, k + 1)

\* The pattern matched with its first character at position i.
MatchAt(s, i, pat) ==
    IF MatchLiteral(s, i, pat.prefix)
    THEN TryOptional(s, i + Len(pat.prefix), pat, 1)
    ELSE [start |-> i, len |-> 0]

\* re.search: the match at the leftmost position that has one.  found is
\* the truth of the match object, group1 is match.group(1).
Search(pat, s) ==
    LET hits == {i \in 1..Len(s) : MatchAt(s, i, pat).len > 0}
    IN  IF hits = {}
        THEN [found |-> FALSE, group1 |-> <<>>]
        ELSE LET m == MatchAt(s, Min(hits), pat)
             IN  [found |-> TRUE,
                  group1 |-> SubSeq(s, m.start, m.start + m.len - 1)]

\* str.strip()
Strip(s) ==
    LET keep == {i \in 1..Len(s) : s[i] \notin Whitespace}
    IN  IF keep = {} THEN <<>> ELSE SubSeq(s, Min(keep), Max(keep))

\* Variant: the patterns are searched together (as one alternation), so that
\* the match that starts leftmost in the prompt wins, whatever its pattern.
FirstMatchLeftmost(patterns, s, k, current) ==
    LET starts(n) == {i \in 1..Len(s) : MatchAt(s, i, patterns[n]).len > 0}
        found == {n \in k..Len(patterns) : starts(n) # {}}
    IN  IF found = {} THEN current
        ELSE LET first == CHOOSE n \in found : \A m \in found :
                     \/ Min(starts(n)) < Min(starts(m))
                     \/ (Min(starts(n)) = Min(starts(m)) /\ n <= m)
             IN  Strip(Search(patterns[first], s).group1)

\* for pattern in patterns:
\*     match = re.search(pattern, prompt, re.IGNORECASE)
\*     if match: field = match.group(1).strip(); break
RECURSIVE FirstMatch(_, _, _, _)
FirstMatch(patterns, s, k, current) ==
    IF k > Len(patterns) THEN current
    ELSE LET match == Search(patterns[k], s)
         IN  IF match.found THEN Strip(match.group1)
             ELSE FirstMatch(patterns, s, k + 1, current)

(***************************************************************************)
(* The prompts a call is given                                             *)
(***************************************************************************)

Words ==
    << <<"w", "i", "z", "a", "r", "d">>,  \* 'wizard'
       <<"s", "p", "a", "c", "e", "s", "h", "i", "p", "s">>,  \* 'spaceships'
       <<"f", "u", "n", "n", "y">>,  \* 'funny'
       <<"e", "p", "i", "c", "u", "r", "e", "a", "n">>,  \* 'epicurean'
       <<"S", "h", "o", "r", "t">>,  \* 'Short'
       <<"d", "a", "r", "k", "n", "e", "s", "s">>,  \* 'darkness'
       <<"m", "e", "d", "i", "u", "m">>,  \* 'medium'
       <<"l", "o", "n", "g">> >>  \* 'long'

Fragments ==
    << <<"a", "b", "o", "u", "t", " ", "a", " ", "c", "a", "t", " ", "w", "h", "o">>,  \* 'about a cat who'
       <<"A", "b", "o", "u", "t", " ", "A", "n", "n", " ", "w", "h", "o">>,  \* 'About Ann who'
       <<"s", "t", "o", "r", "y", " ", "o", "f", " ", "a", "n", " ", "e", "l", "f", ",">>,  \* 'story of an elf,'
       <<"p", "r", "o", "t", "a", "g", "o", "n", "i", "s", "t", " ", "n", "a", "m", "e", "d", " ", "Z", "o", "e">>,  \* 'protagonist named Zoe'
       <<"m", "a", "i", "n", " ", "c", "h", "a", "r", "a", "c", "t", "e", "r", " ", " ", "B", "o", "b", ".">>,  \* 'main character  Bob.'
       <<"s", "e", "t", " ", "i", "n", " ", "a", "n", " ", "o", "l", "d", " ", "t", "o", "w", "n">>,  \* 'set in an old town'
       <<"w", "o", "r", "l", "d", " ", "o", "f", " ", "O", "z", ".">>,  \* 'world of Oz.'
       <<"L", "o", "c", "a", "t", "e", "d", " ", "i", "n", " ", "R", "o", "m", "e">>,  \* 'Located in Rome'
       <<"t", "a", "k", "e", "s", " ", "p", "l", "a", "c", "e", " ", "i", "n", " ", "s", "p", "a", "c", "e", ",">> >>  \* 'takes place in space,'

\* 'A fantasy story about a young wizard who saves his village'
WizardPrompt ==
    <<"A", " ", "f", "a", "n", "t", "a", "s", "y", " ", "s", "t", "o", "r", "y", " ", "a", "b", "o", "u", "t", " ", "a", " ", "y", "o", "u", "n", "g", " ", "w", "i", "z", "a", "r", "d", " ", "w", "h", "o", " ", "s", "a", "v", "e", "s", " ", "h", "i", "s", " ", "v", "i", "l", "l", "a", "g", "e">>

\* 'Write a short horror story set in an abandoned hospital'
HospitalPrompt ==
    <<"W", "r", "i", "t", "e", " ", "a", " ", "s", "h", "o", "r", "t", " ", "h", "o", "r", "r", "o", "r", " ", "s", "t", "o", "r", "y", " ", "s", "e", "t", " ", "i", "n", " ", "a", "n", " ", "a", "b", "a", "n", "d", "o", "n", "e", "d", " ", "h", "o", "s", "p", "i", "t", "a", "l">>

\* 'an epicurean feast'
EpicureanPrompt ==
    <<"a", "n", " ", "e", "p", "i", "c", "u", "r", "e", "a", "n", " ", "f", "e", "a", "s", "t">>

\* 'A SHORT Dark Mystery About Ann who hides, Located in Rome.'
CasingPrompt ==
    <<"A", " ", "S", "H", "O", "R", "T", " ", "D", "a", "r", "k", " ", "M", "y", "s", "t", "e", "r", "y", " ", "A", "b", "o", "u", "t", " ", "A", "n", "n", " ", "w", "h", "o", " ", "h", "i", "d", "e", "s", ",", " ", "L", "o", "c", "a", "t", "e", "d", " ", "i", "n", " ", "R", "o", "m", "e", ".">>

\* The words (fragments) joined by single spaces.
RECURSIVE Join(_)
Join(ws) ==
    IF Len(ws) = 0 THEN <<>>
    ELSE IF Len(ws) = 1 THEN ws[1]
    ELSE ws[1] \o <<" ">> \o Join(Tail(ws))

\* Every prompt of at most max items of the vocabulary.
PromptsOver(vocabulary, max) ==
    UNION { {Join([i \in 1..n |-> vocabulary[f[i]]]) :
                 f \in [1..n -> 1..Len(vocabulary)]} : n \in 0..max }

Prompts ==
    {<<>>, WizardPrompt, HospitalPrompt, EpicureanPrompt, CasingPrompt}
        \cup PromptsOver(Words, MaxWords)
        \cup PromptsOver(Fragments, MaxFragments)

(***************************************************************************)
(* One call of analyze_prompt(prompt).  pc is the statement the call is    *)
(* at; prompt_lower, genre_scores and config are its locals (a local holds *)
(* a placeholder until the statement that binds it has run).               *)
(***************************************************************************)
VARIABLES prompt, pc, prompt_lower, genre_scores, config

vars == <<prompt, pc, prompt_lower, genre_scores, config>>

Init ==
    /\ prompt \in Prompts
    /\ pc = "start"
    /\ prompt_lower = <<>>
    /\ genre_scores = <<>>
    /\ config = StoryConfig

\* Lines 94-96.
Start ==
    /\ pc = "start"
    /\ config' = [StoryConfig EXCEPT !.original_prompt = prompt]
    /\ prompt_lower' = Lower(prompt)
    /\ pc' = "genre"
    /\ UNCHANGED <<prompt, genre_scores>>

\* Lines 98-106.
ExtractGenre ==
    /\ pc = "genre"
    /\ genre_scores' = GenreScores(prompt_lower)
    /\ config' = [config EXCEPT !.genre = DetectGenre(genre_scores', @)]
    /\ pc' = "length"
    /\ UNCHANGED <<prompt, prompt_lower>>

\* Variant: the length keywords are looked up in the prompt as typed.
ExtractLengthCaseSensitive ==
    /\ pc = "length"
    /\ config' = [config EXCEPT
                    !.length = FirstWithKeyword(length_keywords, prompt, 1, @)]
    /\ pc' = "tone"
    /\ UNCHANGED <<prompt, prompt_lower, genre_scores>>

\* Lines 108-112.
ExtractLength ==
    /\ pc = "length"
    /\ config' = [config EXCEPT
                    !.length = FirstWithKeyword(length_keywords, prompt_lower, 1, @)]
    /\ pc' = "tone"
    /\ UNCHANGED <<prompt, prompt_lower, genre_scores>>

\* Lines 114-118.
ExtractTone ==
    /\ pc = "tone"
    /\ config' = [config EXCEPT
                    !.tone = FirstWithKeyword(tone_keywords, prompt_lower, 1, @)]
    /\ pc' = "protagonist"
    /\ UNCHANGED <<prompt, prompt_lower, genre_scores>>

\* Variant: the protagonist patterns run on the lower-cased copy.
ExtractProtagonistLowered ==
    /\ pc = "protagonist"
    /\ config' = [config EXCEPT
                    !.protagonist =
                        FirstMatch(character_patterns, prompt_lower, 1, @)]
    /\ pc' = "setting"
    /\ UNCHANGED <<prompt, prompt_lower, genre_scores>>

\* Lines 120-125.
ExtractProtagonist ==
    /\ pc = "protagonist"
    /\ config' = [config EXCEPT
                    !.protagonist = FirstMatch(character_patterns, prompt, 1, @)]
    /\ pc' = "setting"
    /\ UNCHANGED <<prompt, prompt_lower, genre_scores>>

\* Lines 127-132.
ExtractSetting ==
    /\ pc = "setting"
    /\ config' = [config EXCEPT
                    !.setting = FirstMatch(setting_patterns, prompt, 1, @)]
    /\ pc' = "return"
    /\ UNCHANGED <<prompt, prompt_lower, genre_scores>>

\* Line 134.
Return ==
    /\ pc = "return"
    /\ pc' = "done"
    /\ UNCHANGED <<prompt, prompt_lower, genre_scores, config>>

Next ==
    \/ Start
    \/ ExtractGenre
    \/ ExtractLength
    \/ ExtractTone
    \/ ExtractProtagonist
    \/ ExtractSetting
    \/ Return

(***************************************************************************)
(* Properties of analyze_prompt                                            *)
(***************************************************************************)

\* The call has returned its record.
Returned == pc = "done"

\* The keywords of the table entry called name.
KeywordsOf(table, name) ==
    table[CHOOSE i \in 1..Len(table) : table[i].name = name].keywords

\* word stands in s at position i.
OccursAt(s, word, i) ==
    /\ i + Len(word) - 1 <= Len(s)
    /\ \A j \in 1..Len(word) : s[i + j - 1] = word[j]

\* Some keyword of the table entry called name occurs in the lower-cased
\* prompt at some position.
Occurs(table, name) ==
    LET keywords == KeywordsOf(table, name)
    IN  \E k \in 1..Len(keywords) : \E i \in 1..Len(prompt_lower) :
            OccursAt(prompt_lower, keywords[k], i)

\* The number of distinct keywords of the genre that occur in the
\* lower-cased prompt.
KeywordCount(genre) ==
    LET keywords == KeywordsOf(genre_keywords, genre)
    IN  Cardinality({keywords[k] : k \in
            {k \in 1..Len(keywords) : \E i \in 1..Len(prompt_lower) :
                OccursAt(prompt_lower, keywords[k], i)}})

GenreOrder ==
    <<"fantasy", "sci-fi", "mystery", "horror", "romance", "adventure",
      "thriller", "historical", "comedy", "contemporary">>
LengthOrder == <<"short", "medium", "long", "epic">>
ToneOrder == <<"dark", "light", "humorous", "dramatic", "mysterious">>

\* The keyword count of every genre, in the declared order.
RECURSIVE KeywordCountsFrom(_)
KeywordCountsFrom(i) ==
    IF i > Len(GenreOrder) THEN <<>>
    ELSE <<KeywordCount(GenreOrder[i])>> \o KeywordCountsFrom(i + 1)

KeywordCounts == KeywordCountsFrom(1)

\* The first position at which word occurs in s (0: nowhere).
FirstPosition(s, word) ==
    LET at == {i \in 1..Len(s) : OccursAt(s, word, i)}
    IN  IF at = {} THEN 0 ELSE Min(at)

\* C1: for every prompt, the empty one and those without any keyword
\* included, the call is always at one of its statements or has returned
\* (it has no error exit), and the record it builds at line 94 and returns
\* has its genre, length and tone in the closed sets.
Theorem_C1 ==
    /\ pc \in {"start", "genre", "length", "tone", "protagonist", "setting",
               "return", "done"}
    /\ pc # "start" =>
          /\ config.genre \in
                {"fantasy", "sci-fi", "mystery", "horror", "romance", "adventure",
                 "thriller", "historical", "comedy", "contemporary", "general"}
          /\ config.length \in {"short", "medium", "long", "epic"}
          /\ config.tone \in
                {"dark", "light", "humorous", "dramatic", "mysterious", "neutral"}

\* A returned record for a non-empty prompt in which no keyword of any table
\* occurs.
Witness_C1 ==
    /\ Returned
    /\ prompt # <<>>
    /\ \A i \in 1..Len(GenreOrder) : ~Occurs(genre_keywords, GenreOrder[i])
    /\ \A i \in 1..Len(LengthOrder) : ~Occurs(length_keywords, LengthOrder[i])
    /\ \A i \in 1..Len(ToneOrder) : ~Occurs(tone_keywords, ToneOrder[i])
    /\ config.genre = "general" /\ config.length = "medium" /\ config.tone = "neutral"

\* C2 as stated: the wizard prompt yields genre fantasy and the protagonist
\* "a young wizard", article included.
Original_C2 ==
    (Returned /\ prompt = WizardPrompt) =>
        /\ config.genre = "fantasy"
        /\ config.protagonist =
              <<"a", " ", "y", "o", "u", "n", "g", " ", "w", "i", "z", "a", "r", "d">>

\* C2 as amended: the wizard prompt yields genre fantasy and the protagonist
\* "young wizard"; the optional group consumes the article, which is no part
\* of the capture.
Theorem_C2 ==
    (Returned /\ prompt = WizardPrompt) =>
        /\ config.genre = "fantasy"
        /\ config.protagonist =
              <<"y", "o", "u", "n", "g", " ", "w", "i", "z", "a", "r", "d">>

Witness_C2 ==
    Returned /\ prompt = WizardPrompt /\ config.protagonist # <<>>

\* C3: the hospital prompt yields length short, genre horror and the setting
\* "an abandoned hospital", the whole phrase to the end of the prompt.
Claim_C3 ==
    (Returned /\ prompt = HospitalPrompt) =>
        /\ config.length = "short"
        /\ config.genre = "horror"
        /\ config.setting =
              <<"a", "n", " ", "a", "b", "a", "n", "d", "o", "n", "e", "d", " ",
                "h", "o", "s", "p", "i", "t", "a", "l">>

\* The positions in the declared order of the genres that have the largest
\* of the counts.
Top(counts) ==
    {i \in 1..Len(counts) : \A j \in 1..Len(counts) : counts[j] <= counts[i]}

\* C4: when several genres share the largest positive keyword count, the
\* record's genre is the one of them that comes first in the declared order,
\* wherever their keywords stand in the prompt.
Theorem_C4 ==
    Returned =>
        LET counts == KeywordCounts
            top == Top(counts)
        IN  (Cardinality(top) >= 2 /\ counts[Min(top)] > 0) =>
                config.genre = GenreOrder[Min(top)]

\* Fantasy and comedy tie and the comedy keyword comes first in the prompt,
\* yet fantasy is returned.
Witness_C4 ==
    /\ Returned
    /\ Top(KeywordCounts) = {1, 9}
    /\ KeywordCount("fantasy") > 0
    /\ FirstPosition(prompt_lower, <<"f", "u", "n", "n", "y">>) = 1
    /\ FirstPosition(prompt_lower, <<"w", "i", "z", "a", "r", "d">>) > 1
    /\ config.genre = "fantasy"

\* C5: the empty prompt yields the defaults: general, medium, neutral, and
\* an empty protagonist and setting.
Theorem_C5 ==
    (Returned /\ prompt = <<>>) =>
        /\ config.genre = "general"
        /\ config.length = "medium"
        /\ config.tone = "neutral"
        /\ config.protagonist = <<>>
        /\ config.setting = <<>>

Witness_C5 ==
    Returned /\ prompt = <<>> /\ config.original_prompt = <<>>

\* C6: the score of a genre is the number of its keywords that occur in the
\* lower-cased prompt, each counted once however often it occurs;
\* genre_scores holds exactly the genres that score above 0; the record's
\* genre scores at least as high as every genre; and the genre is general
\* exactly when every genre scores 0.
Theorem_C6 ==
    Returned =>
        LET counts == KeywordCounts
        IN  /\ genre_scores =
                  SelectSeq([i \in 1..Len(GenreOrder) |->
                                [key |-> GenreOrder[i], value |-> counts[i]]],
                            LAMBDA e : e.value > 0)
            /\ \A i \in 1..Len(GenreOrder) :
                  config.genre = GenreOrder[i] =>
                      \A j \in 1..Len(GenreOrder) : counts[j] <= counts[i]
            /\ config.genre = "general" <=>
                  \A i \in 1..Len(GenreOrder) : counts[i] = 0

\* A keyword stands at two or more positions of the prompt and its genre
\* scores 1.
Witness_C6 ==
    /\ Returned
    /\ \E n \in 1..Len(genre_scores) :
          /\ genre_scores[n].value = 1
          /\ LET keywords == KeywordsOf(genre_keywords, genre_scores[n].key)
             IN  \E k \in 1..Len(keywords) :
                     Cardinality({i \in 1..Len(prompt_lower) :
                                     OccursAt(prompt_lower, keywords[k], i)}) >= 2

\* C7: the record's length is the first of short, medium, long, epic that
\* has a keyword occurring in the lower-cased prompt, wherever the keywords
\* stand, and medium when none has.
Theorem_C7 ==
    Returned =>
        LET has == {i \in 1..Len(LengthOrder) : Occurs(length_keywords, LengthOrder[i])}
        IN  config.length = IF has = {} THEN "medium" ELSE LengthOrder[Min(has)]

\* The prompt holds "epic" before "short", and the length is short.
Witness_C7 ==
    /\ Returned
    /\ FirstPosition(prompt_lower, <<"e", "p", "i", "c">>) > 0
    /\ FirstPosition(prompt_lower, <<"e", "p", "i", "c">>)
          < FirstPosition(prompt_lower, <<"s", "h", "o", "r", "t">>)
    /\ config.length = "short"

\* C8: the record's tone is the first of dark, light, humorous, dramatic,
\* mysterious that has a keyword occurring in the lower-cased prompt, and
\* neutral when none has.
Theorem_C8 ==
    Returned =>
        LET has == {i \in 1..Len(ToneOrder) : Occurs(tone_keywords, ToneOrder[i])}
        IN  config.tone = IF has = {} THEN "neutral" ELSE ToneOrder[Min(has)]

\* The prompt holds "funny" (humorous) before "dark", and the tone is dark.
Witness_C8 ==
    /\ Returned
    /\ FirstPosition(prompt_lower, <<"f", "u", "n", "n", "y">>) > 0
    /\ FirstPosition(prompt_lower, <<"f", "u", "n", "n", "y">>)
          < FirstPosition(prompt_lower, <<"d", "a", "r", "k">>)
    /\ config.tone = "dark"

\* The literal text each protagonist pattern starts with, in the order the
\* patterns are tried.
PatternOrder ==
    << <<"a", "b", "o", "u", "t", " ">>,
       <<"p", "r", "o", "t", "a", "g", "o", "n", "i", "s", "t", " ">>,
       <<"m", "a", "i", "n", " ", "c", "h", "a", "r", "a", "c", "t", "e", "r", " ">>,
       <<"s", "t", "o", "r", "y", " ", "o", "f", " ">> >>

\* x is the text g without the whitespace around it.
Trimmed(x, g) ==
    IF x = <<>> THEN \A i \in 1..Len(g) : g[i] \in Whitespace
    ELSE /\ x[1] \notin Whitespace
         /\ x[Len(x)] \notin Whitespace
         /\ \E a \in 1..Len(g) :
               /\ a + Len(x) - 1 <= Len(g)
               /\ \A i \in 1..Len(x) : g[a + i - 1] = x[i]
               /\ \A i \in 1..(a - 1) : g[i] \in Whitespace
               /\ \A i \in (a + Len(x))..Len(g) : g[i] \in Whitespace

\* C9: the protagonist is the trimmed capture of the first pattern, in the
\* order about, protagonist, main character, story of, that matches anywhere
\* in the prompt, whatever a later pattern matches and where; it is empty
\* when no pattern matches.
Theorem_C9 ==
    /\ \A k \in 1..Len(PatternOrder) : character_patterns[k].prefix = PatternOrder[k]
    /\ Len(character_patterns) = Len(PatternOrder)
    /\ Returned =>
          LET matching == {k \in 1..Len(character_patterns) :
                              Search(character_patterns[k], prompt).found}
          IN  IF matching = {} THEN config.protagonist = <<>>
              ELSE Trimmed(config.protagonist,
                           Search(character_patterns[Min(matching)], prompt).group1)

\* "story of ..." matches at the start of the prompt and "about ... who"
\* further on, and the protagonist is the capture of "about ... who".
Witness_C9 ==
    /\ Returned
    /\ MatchAt(prompt, 1, character_patterns[4]).len > 0
    /\ \E i \in 2..Len(prompt) : MatchAt(prompt, i, character_patterns[1]).len > 0
    /\ config.protagonist = <<"c", "a", "t">>

\* s with every occurrence of from replaced by to, left to right.
RECURSIVE Replace(_, _, _)
Replace(s, from, to) ==
    IF Len(s) < Len(from) THEN s
    ELSE IF SubSeq(s, 1, Len(from)) = from
         THEN to \o Replace(SubSeq(s, Len(from) + 1, Len(s)), from, to)
         ELSE <<Head(s)>> \o Replace(Tail(s), from, to)

\* The lower-cased prompt with each word that embeds a keyword replaced by
\* the keyword standing alone: epicurean by epic, spaceships by spaceship,
\* darkness by dark.
Standalone(s) ==
    Replace(
        Replace(
            Replace(s, <<"e", "p", "i", "c", "u", "r", "e", "a", "n">>,
                       <<"e", "p", "i", "c">>),
            <<"s", "p", "a", "c", "e", "s", "h", "i", "p", "s">>,
            <<"s", "p", "a", "c", "e", "s", "h", "i", "p">>),
        <<"d", "a", "r", "k", "n", "e", "s", "s">>,
        <<"d", "a", "r", "k">>)

\* C10: "an epicurean feast" yields length epic, and a prompt whose keywords
\* stand inside longer words yields the genre, length and tone of the prompt
\* in which the same keywords stand alone.
Theorem_C10 ==
    Returned =>
        /\ prompt = EpicureanPrompt => config.length = "epic"
        /\ LET alone == Standalone(prompt_lower)
           IN  /\ config.genre = DetectGenre(GenreScores(alone), "general")
               /\ config.length = FirstWithKeyword(length_keywords, alone, 1, "medium")
               /\ config.tone = FirstWithKeyword(tone_keywords, alone, 1, "neutral")

Witness_C10 ==
    /\ Returned
    /\ prompt = EpicureanPrompt
    /\ Standalone(prompt_lower) # prompt_lower
    /\ config.length = "epic"

\* Some keyword of the table entry called name stands in the prompt itself
\* in some casing.
OccursInSomeCasing(table, name) ==
    LET keywords == KeywordsOf(table, name)
    IN  \E k \in 1..Len(keywords) : \E i \in 1..Len(prompt) :
            /\ i + Len(keywords[k]) - 1 <= Len(prompt)
            /\ \A j \in 1..Len(keywords[k]) :
                  CharLower(prompt[i + j - 1]) = keywords[k][j]

\* text stands in the prompt, character for character.
Verbatim(text) == \E i \in 1..Len(prompt) : OccursAt(prompt, text, i)

\* C12: original_prompt is the input character for character; a keyword
\* counts in whatever casing it stands in the prompt (genre other than
\* general, length and tone follow the keywords found that way); the
\* protagonist and setting are found whatever the casing of the prompt (the
\* same text, lower-cased, is found in the lower-cased prompt) and are
\* stored as they are written in the prompt.
Theorem_C12 ==
    Returned =>
        /\ config.original_prompt = prompt
        /\ prompt_lower = [i \in 1..Len(prompt) |-> CharLower(prompt[i])]
        /\ LET has == {i \in 1..Len(LengthOrder) :
                          OccursInSomeCasing(length_keywords, LengthOrder[i])}
           IN  config.length =
                   IF has = {} THEN "medium" ELSE LengthOrder[Min(has)]
        /\ LET has == {i \in 1..Len(ToneOrder) :
                          OccursInSomeCasing(tone_keywords, ToneOrder[i])}
           IN  config.tone =
                   IF has = {} THEN "neutral" ELSE ToneOrder[Min(has)]
        /\ config.genre # "general" =>
               OccursInSomeCasing(genre_keywords, config.genre)
        /\ config.protagonist # <<>> => Verbatim(config.protagonist)
        /\ config.setting # <<>> => Verbatim(config.setting)
        /\ Lower(config.protagonist) =
               FirstMatch(character_patterns, prompt_lower, 1, <<>>)
        /\ Lower(config.setting) =
               FirstMatch(setting_patterns, prompt_lower, 1, <<>>)

\* Keywords in capitals were found, and the protagonist and setting are
\* stored with their capitals.
Witness_C12 ==
    /\ Returned
    /\ prompt = CasingPrompt
    /\ prompt_lower # prompt
    /\ config.length = "short" /\ config.tone = "dark"
    /\ config.genre = "mystery"
    /\ config.protagonist = <<"A", "n", "n">>
    /\ config.setting = <<"R", "o", "m", "e">>

(***************************************************************************)
(* Several calls of analyze_prompt                                         *)
(*                                                                         *)
(* analyzers holds the attributes of the PromptAnalyzer instances, frames  *)
(* the local variables of every call (self, prompt, prompt_lower,          *)
(* genre_scores, and config: a reference to a StoryConfig object), heap    *)
(* the StoryConfig objects by reference.  The object a call constructs is  *)
(* named after the call.                                                   *)
(***************************************************************************)
VARIABLES analyzers, frames, heap

callVars == <<analyzers, frames, heap>>

\* Bounds: the calls made one after the other, and the calls in flight
\* together.
MaxLog == 3
MaxCalls == 2

\* The attributes __init__ binds on a new instance (lines 50-90).
PromptAnalyzer ==
    [genre_keywords |-> genre_keywords,
     length_keywords |-> length_keywords,
     tone_keywords |-> tone_keywords,
     character_patterns |-> character_patterns,
     setting_patterns |-> setting_patterns]

\* The instances: the generator's (line 150) and the one a web request
\* constructs (webapp.py line 103).
Analyzers == {"generator", "request"}

\* The prompts of the calls.
CallPrompts == {WizardPrompt, HospitalPrompt, EpicureanPrompt}

\* analyze_prompt(self, prompt) run alone from its first statement to its
\* return (lines 92-134): the record it returns.
AnalyzePrompt(self, p) ==
    LET lowered == Lower(p)
        scores == GenreScoresOf(self.genre_keywords, lowered)
    IN  [StoryConfig EXCEPT
            !.original_prompt = p,
            !.genre = DetectGenre(scores, @),
            !.length = FirstWithKeyword(self.length_keywords, lowered, 1, @),
            !.tone = FirstWithKeyword(self.tone_keywords, lowered, 1, @),
            !.protagonist = FirstMatch(self.character_patterns, p, 1, @),
            !.setting = FirstMatch(self.setting_patterns, p, 1, @)]

\* A call that has not been made yet.
NoFrame ==
    [pc |-> "idle", self |-> "", prompt |-> <<>>, prompt_lower |-> <<>>,
     genre_scores |-> <<>>, config |-> 0]

CallsInit(n) ==
    /\ analyzers = [a \in Analyzers |-> PromptAnalyzer]
    /\ frames = [c \in 1..n |-> NoFrame]
    /\ heap = <<>>

\* heap with the object r bound to the value v.
Store(r, v) == [x \in DOMAIN heap \cup {r} |-> IF x = r THEN v ELSE heap[x]]

\* Variant: the call fills the object the previous call returned instead of
\* a new StoryConfig().
CallStartReusingRecord(c, a, p) ==
    /\ frames[c].pc = "idle"
    /\ frames' = [frames EXCEPT ![c] =
                     [pc |-> "genre", self |-> a, prompt |-> p,
                      prompt_lower |-> Lower(p), genre_scores |-> <<>>,
                      config |-> c]]
    /\ heap' = Store(c, [(IF c - 1 \in DOMAIN heap THEN heap[c - 1]
                                                  ELSE StoryConfig)
                            EXCEPT !.original_prompt = p])
    /\ UNCHANGED analyzers

\* Variant: every call fills one StoryConfig object kept on the instance.
CallStartSharedRecord(c, a, p) ==
    /\ frames[c].pc = "idle"
    /\ frames' = [frames EXCEPT ![c] =
                     [pc |-> "genre", self |-> a, prompt |-> p,
                      prompt_lower |-> Lower(p), genre_scores |-> <<>>,
                      config |-> 1]]
    /\ heap' = Store(1, [StoryConfig EXCEPT !.original_prompt = p])
    /\ UNCHANGED analyzers

\* The call analyzers[a].analyze_prompt(p) and its lines 94-96.
CallStart(c, a, p) ==
    /\ frames[c].pc = "idle"
    /\ frames' = [frames EXCEPT ![c] =
                     [pc |-> "genre", self |-> a, prompt |-> p,
                      prompt_lower |-> Lower(p), genre_scores |-> <<>>,
                      config |-> c]]
    /\ heap' = Store(c, [StoryConfig EXCEPT !.original_prompt = p])
    /\ UNCHANGED analyzers

\* Lines 98-106.
CallExtractGenre(c) ==
    /\ frames[c].pc = "genre"
    /\ LET f == frames[c]
           scores == GenreScoresOf(analyzers[f.self].genre_keywords,
                                   f.prompt_lower)
       IN  /\ frames' = [frames EXCEPT ![c].genre_scores = scores,
                                       ![c].pc = "length"]
           /\ heap' = [heap EXCEPT ![f.config].genre = DetectGenre(scores, @)]
    /\ UNCHANGED analyzers

\* Lines 108-112.
CallExtractLength(c) ==
    /\ frames[c].pc = "length"
    /\ LET f == frames[c]
       IN  heap' = [heap EXCEPT ![f.config].length =
                       FirstWithKeyword(analyzers[f.self].length_keywords,
                                        f.prompt_lower, 1, @)]
    /\ frames' = [frames EXCEPT ![c].pc = "tone"]
    /\ UNCHANGED analyzers

\* Lines 114-118.
CallExtractTone(c) ==
    /\ frames[c].pc = "tone"
    /\ LET f == frames[c]
       IN  heap' = [heap EXCEPT ![f.config].tone =
                       FirstWithKeyword(analyzers[f.self].tone_keywords,
                                        f.prompt_lower, 1, @)]
    /\ frames' = [frames EXCEPT ![c].pc = "protagonist"]
    /\ UNCHANGED analyzers

\* Lines 120-125.
CallExtractProtagonist(c) ==
    /\ frames[c].pc = "protagonist"
    /\ LET f == frames[c]
       IN  heap' = [heap EXCEPT ![f.config].protagonist =
                       FirstMatch(analyzers[f.self].character_patterns,
                                  f.prompt, 1, @)]
    /\ frames' = [frames EXCEPT ![c].pc = "setting"]
    /\ UNCHANGED analyzers

\* Lines 127-132.
CallExtractSetting(c) ==
    /\ frames[c].pc = "setting"
    /\ LET f == frames[c]
       IN  heap' = [heap EXCEPT ![f.config].setting =
                       FirstMatch(analyzers[f.self].setting_patterns,
                                  f.prompt, 1, @)]
    /\ frames' = [frames EXCEPT ![c].pc = "return"]
    /\ UNCHANGED analyzers

\* Line 134.
CallReturn(c) ==
    /\ frames[c].pc = "return"
    /\ frames' = [frames EXCEPT ![c].pc = "done"]
    /\ UNCHANGED <<analyzers, heap>>

\* Call c is the next of calls made one after the other: the calls before it
\* have returned and those after it have not been made.
InTurn(c) ==
    \A d \in DOMAIN frames :
        /\ d < c => frames[d].pc = "done"
        /\ d > c => frames[d].pc = "idle"

\* The calls that have returned, and the record each returned.
ReturnedCalls == {c \in DOMAIN frames : frames[c].pc = "done"}

Record(c) == heap[frames[c].config]

\* C11: any two calls made one after the other on the same prompt returned
\* records equal in every field, whichever instances they ran on and
\* whatever was called between them.
Theorem_C11 ==
    \A c, d \in ReturnedCalls :
        frames[c].prompt = frames[d].prompt => Record(c) = Record(d)

\* Two calls on one prompt, on different instances, with a call on another
\* prompt, which returned another protagonist, between them.
Witness_C11 ==
    \E c, d, e \in ReturnedCalls :
        /\ c < d /\ d < e
        /\ frames[c].prompt = frames[e].prompt
        /\ frames[d].prompt # frames[c].prompt
        /\ frames[c].self # frames[e].self
        /\ Record(c) = Record(e)
        /\ Record(c).protagonist # Record(d).protagonist

\* The record each prompt yields when its call runs alone.
AloneRecords == [p \in CallPrompts |-> AnalyzePrompt(PromptAnalyzer, p)]

\* The statements of a call in the order they run, and the fields of the
\* record it has written once it is at statement n.
CallOrder ==
    <<"genre", "length", "tone", "protagonist", "setting", "return", "done">>

At(c) == CHOOSE n \in 1..Len(CallOrder) : CallOrder[n] = frames[c].pc

StartedCalls == {c \in DOMAIN frames : frames[c].pc # "idle"}

\* The record of a call that ran alone up to statement n.
AloneRecordAt(p, n) ==
    LET alone == AloneRecords[p]
    IN  [StoryConfig EXCEPT
            !.original_prompt = p,
            !.genre = IF n > 1 THEN alone.genre ELSE @,
            !.length = IF n > 2 THEN alone.length ELSE @,
            !.tone = IF n > 3 THEN alone.tone ELSE @,
            !.protagonist = IF n > 4 THEN alone.protagonist ELSE @,
            !.setting = IF n > 5 THEN alone.setting ELSE @]

\* C13: with calls on one shared instance interleaved statement by
\* statement, the tables of the instance stay as __init__ bound them, no
\* two calls hold the same record, and at every statement a call's record
\* is the one the call would have built alone up to that statement: the
\* record a call returns is the one it returns when run alone, and it stays
\* so while other calls run.
Theorem_C13 ==
    /\ analyzers = [a \in Analyzers |-> PromptAnalyzer]
    /\ \A c, d \in StartedCalls : c # d => frames[c].config # frames[d].config
    /\ \A c \in StartedCalls :
          Record(c) = AloneRecordAt(frames[c].prompt, At(c))

\* Two calls on different prompts are in flight together: one has written
\* every field of its record and is about to return it, the other is
\* half-way through its own.
Witness_C13 ==
    \E c, d \in StartedCalls :
        /\ frames[c].pc = "return" /\ frames[d].pc = "protagonist"
        /\ frames[c].self = frames[d].self
        /\ frames[c].prompt = WizardPrompt /\ frames[d].prompt = HospitalPrompt
        /\ Record(c) = AloneRecords[WizardPrompt]
        /\ Record(d).genre = "horror" /\ Record(c).genre = "fantasy"

(***************************************************************************)
(* The command-line program: main, run_single_prompt, run_interactive_mode *)
(* and what they call.                                                     *)
(*                                                                         *)
(* cli_pc is the place the program is at, mode the branch main took,       *)
(* user_prompt the prompt at hand (args.prompt, then the story idea typed  *)
(* in), cli_config the record, answers what the user typed at the          *)
(* questions asked for the prompt at hand ("": not asked), story what      *)
(* generate_story returned, saved the files written into stories_dir.      *)
(***************************************************************************)
VARIABLES mode, cli_pc, user_prompt, cli_config, answers, story, saved

cliVars == <<mode, cli_pc, user_prompt, cli_config, answers, story, saved>>

\* Bound: the stories saved in one run.
MaxSaved == 1

\* ''
BlankPrompt == <<>>

\* '  '
SpacesPrompt == <<" ", " ">>

\* 'a tale'
TalePrompt == <<"a", " ", "t", "a", "l", "e">>

\* 'a medium tale'
MediumPrompt == <<"a", " ", "m", "e", "d", "i", "u", "m", " ", "t", "a", "l", "e">>

\* The prompts given with --prompt or typed in as the story idea.
CliPrompts == {BlankPrompt, SpacesPrompt, TalePrompt, MediumPrompt, WizardPrompt}

\* What the user types at "Main character" and "Setting/location".
CharacterAnswers == {<<>>, <<"Z", "o", "e">>}
SettingAnswers == {<<>>, <<"O", "z">>}

\* self.lengths: the words of each length (lines 155-160).
lengths ==
    [length \in {"short", "medium", "long", "epic"} |->
        CASE length = "short" -> 500
          [] length = "medium" -> 1500
          [] length = "long" -> 3000
          [] length = "epic" -> 5000]

\* length_map (line 282).
length_map ==
    [choice \in {"1", "2", "3", "4"} |->
        CASE choice = "1" -> "short"
          [] choice = "2" -> "medium"
          [] choice = "3" -> "long"
          [] choice = "4" -> "epic"]

\* What generate_story hands back for the request p: None (the request
\* failed), an empty content, or a story.
NoStory == [value |-> "None", request |-> <<>>]
EmptyStory(p) == [value |-> "", request |-> p]
Story(p) == [value |-> "story", request |-> p]

NoAnswers ==
    [length_choice |-> "", add_details |-> "", protagonist |-> <<>>,
     setting |-> <<>>, save |-> ""]

\* any(keyword in s for keywords in length_keywords.values() for keyword in
\* keywords) (lines 271-273).
AnyLengthKeyword(s) ==
    \E i \in 1..Len(length_keywords) :
        \E k \in 1..Len(length_keywords[i].keywords) :
            Contains(s, length_keywords[i].keywords[k])

CliInit ==
    /\ mode = ""
    /\ cli_pc = "main"
    /\ user_prompt \in CliPrompts
    /\ cli_config = StoryConfig
    /\ answers = NoAnswers
    /\ story = NoStory
    /\ saved = <<>>

\* main, lines 576-581: args.prompt decides the mode.
Main ==
    /\ cli_pc = "main"
    /\ IF user_prompt # <<>>
       THEN mode' = "single" /\ cli_pc' = "analyze"
       ELSE mode' = "interactive" /\ cli_pc' = "menu"
    /\ UNCHANGED <<user_prompt, cli_config, answers, story, saved>>

\* The menu, lines 418-424 and 466-474.
Menu(choice) ==
    /\ cli_pc = "menu"
    /\ CASE choice = "1" -> Len(saved) < MaxSaved /\ cli_pc' = "ask_prompt"
         [] choice = "2" -> cli_pc' = "pause"
         [] choice = "3" -> cli_pc' = "exited"
    /\ UNCHANGED <<mode, user_prompt, cli_config, answers, story, saved>>

\* Lines 435-439: the story idea, and the test that sends a blank one back
\* to the menu.
AskPrompt(p) ==
    /\ cli_pc = "ask_prompt"
    /\ user_prompt' = p
    /\ answers' = NoAnswers
    /\ story' = NoStory
    /\ cli_pc' = IF Strip(p) = <<>> THEN "menu" ELSE "analyze"
    /\ UNCHANGED <<mode, cli_config, saved>>

\* self.analyzer.analyze_prompt(user_prompt), lines 442 and 488.
CliAnalyze ==
    /\ cli_pc = "analyze"
    /\ cli_config' = AnalyzePrompt(PromptAnalyzer, user_prompt)
    /\ cli_pc' = IF mode = "interactive" THEN "clarify" ELSE "generate"
    /\ UNCHANGED <<mode, user_prompt, answers, story, saved>>

\* Variant: the length is asked whenever the record's length is medium.
AskClarifyingQuestionsAnyMedium(length_choice, add_details, protagonist, setting) ==
    /\ cli_pc = "clarify"
    /\ LET ask_length == cli_config.length = "medium"
           c1 == IF ask_length
                 THEN [cli_config EXCEPT !.length = length_map[length_choice]]
                 ELSE cli_config
           ask_details ==
               c1.protagonist = <<>> /\ c1.setting = <<>> /\ c1.genre = "general"
           accepted == ask_details /\ add_details = "y"
           c2 == IF accepted /\ protagonist # <<>>
                 THEN [c1 EXCEPT !.protagonist = protagonist] ELSE c1
           c3 == IF accepted /\ c2.setting = <<>> /\ setting # <<>>
                 THEN [c2 EXCEPT !.setting = setting] ELSE c2
       IN  /\ cli_config' = c3
           /\ answers' =
                 [answers EXCEPT
                     !.length_choice = IF ask_length THEN length_choice ELSE "",
                     !.add_details = IF ask_details THEN add_details ELSE "",
                     !.protagonist = IF accepted THEN protagonist ELSE <<>>,
                     !.setting = IF accepted /\ c2.setting = <<>>
                                 THEN setting ELSE <<>>]
    /\ cli_pc' = "generate"
    /\ UNCHANGED <<mode, user_prompt, story, saved>>

\* ask_clarifying_questions(config), lines 267-298, with what the user
\* answers at each question it asks.
AskClarifyingQuestions(length_choice, add_details, protagonist, setting) ==
    /\ cli_pc = "clarify"
    /\ LET ask_length ==
               /\ cli_config.length = "medium"
               /\ ~AnyLengthKeyword(Lower(cli_config.original_prompt))
           c1 == IF ask_length
                 THEN [cli_config EXCEPT !.length = length_map[length_choice]]
                 ELSE cli_config
           ask_details ==
               c1.protagonist = <<>> /\ c1.setting = <<>> /\ c1.genre = "general"
           accepted == ask_details /\ add_details = "y"
           c2 == IF accepted /\ protagonist # <<>>
                 THEN [c1 EXCEPT !.protagonist = protagonist] ELSE c1
           c3 == IF accepted /\ c2.setting = <<>> /\ setting # <<>>
                 THEN [c2 EXCEPT !.setting = setting] ELSE c2
       IN  /\ cli_config' = c3
           /\ answers' =
                 [answers EXCEPT
                     !.length_choice = IF ask_length THEN length_choice ELSE "",
                     !.add_details = IF ask_details THEN add_details ELSE "",
                     !.protagonist = IF accepted THEN protagonist ELSE <<>>,
                     !.setting = IF accepted /\ c2.setting = <<>>
                                 THEN setting ELSE <<>>]
    /\ cli_pc' = "generate"
    /\ UNCHANGED <<mode, user_prompt, story, saved>>

\* Where the program goes when a story round is over.
AfterRound == IF mode = "interactive" THEN "pause" ELSE "returned"

\* generate_story(user_prompt, config), lines 322-332, and the test of its
\* result at lines 451 and 495.  The word target is looked up by length.
GenerateStory(result) ==
    /\ cli_pc = "generate"
    /\ cli_config.length \in DOMAIN lengths
    /\ story' = result
    /\ cli_pc' = IF result.value = "story" THEN "ask_save" ELSE AfterRound
    /\ UNCHANGED <<mode, user_prompt, cli_config, answers, saved>>

\* An exception out of the request other than the ones _make_api_request
\* handles (lines 224-231): the loop logs it and goes on (lines 479-481),
\* main reports it and ends (lines 584-586).
GenerateRaises ==
    /\ cli_pc = "generate"
    /\ cli_pc' = IF mode = "interactive" THEN "menu" ELSE "failed"
    /\ UNCHANGED <<mode, user_prompt, cli_config, answers, story, saved>>

\* Confirm.ask("Save this story?"), lines 458 and 502.
ConfirmSave(save) ==
    /\ cli_pc = "ask_save"
    /\ answers' = [answers EXCEPT !.save = save]
    /\ cli_pc' = IF save = "y" THEN "save" ELSE AfterRound
    /\ UNCHANGED <<mode, user_prompt, cli_config, story, saved>>

\* save_story(story, config), lines 334-374.
SaveStory ==
    /\ cli_pc = "save"
    /\ saved' = Append(saved, [story |-> story, config |-> cli_config])
    /\ cli_pc' = AfterRound
    /\ UNCHANGED <<mode, user_prompt, cli_config, answers, story>>

\* input("Press Enter to continue..."), lines 471-472.
Pause ==
    /\ cli_pc = "pause"
    /\ cli_pc' = "menu"
    /\ UNCHANGED <<mode, user_prompt, cli_config, answers, story, saved>>

\* Ctrl-C while the program runs: the loop ends (lines 476-478); in
\* single-prompt mode nothing catches it.
KeyboardInterrupt ==
    /\ cli_pc \in {"menu", "ask_prompt", "analyze", "clarify", "generate",
                   "ask_save", "save", "pause"}
    /\ cli_pc' = "interrupted"
    /\ UNCHANGED <<mode, user_prompt, cli_config, answers, story, saved>>

\* Some length keyword stands in the lower-cased text.
HoldsLengthKeyword(text) ==
    LET lowered == Lower(text)
    IN  \E n \in 1..Len(LengthOrder) :
            LET keywords == KeywordsOf(length_keywords, LengthOrder[n])
            IN  \E k \in 1..Len(keywords) : \E i \in 1..Len(lowered) :
                    OccursAt(lowered, keywords[k], i)

\* C14: across ask_clarifying_questions, genre, tone and original_prompt
\* (and style and theme) stay as they were; length changes only if it was
\* medium and the prompt holds no length keyword; protagonist or setting
\* changes only if both were empty, genre is general and the user accepted
\* adding details, and then only to the non-empty answer the user gave.
Theorem_C14 ==
    [][(cli_pc = "clarify" /\ cli_pc' = "generate") =>
        /\ cli_config'.genre = cli_config.genre
        /\ cli_config'.tone = cli_config.tone
        /\ cli_config'.original_prompt = cli_config.original_prompt
        /\ cli_config'.style = cli_config.style
        /\ cli_config'.theme = cli_config.theme
        /\ cli_config'.length # cli_config.length =>
              /\ cli_config.length = "medium"
              /\ ~HoldsLengthKeyword(cli_config.original_prompt)
        /\ (\/ cli_config'.protagonist # cli_config.protagonist
            \/ cli_config'.setting # cli_config.setting) =>
              /\ cli_config.protagonist = <<>> /\ cli_config.setting = <<>>
              /\ cli_config.genre = "general"
              /\ answers'.add_details = "y"
        /\ cli_config'.protagonist # cli_config.protagonist =>
              /\ cli_config'.protagonist # <<>>
              /\ cli_config'.protagonist = answers'.protagonist
        /\ cli_config'.setting # cli_config.setting =>
              /\ cli_config'.setting # <<>>
              /\ cli_config'.setting = answers'.setting
      ]_cliVars

\* The clarifier has run on the record of a prompt without keywords and
\* changed its length, protagonist and setting to the user's answers.
Witness_C14 ==
    /\ cli_pc = "generate" /\ mode = "interactive"
    /\ user_prompt = TalePrompt
    /\ AnalyzePrompt(PromptAnalyzer, user_prompt).length = "medium"
    /\ AnalyzePrompt(PromptAnalyzer, user_prompt).protagonist = <<>>
    /\ cli_config.length = "epic"
    /\ cli_config.protagonist = <<"Z", "o", "e">>
    /\ cli_config.setting = <<"O", "z">>
    /\ cli_config.genre = "general"

\* The places of the program at which the prompt at hand has been analyzed
\* (and is being, or has been, sent for generation).
AnalyzedPlaces == {"clarify", "generate", "ask_save", "save"}

\* save_story is being called only with a non-empty story generated for
\* the prompt at hand and after the user confirmed saving; every saved
\* file holds such a story; the interactive loop has ended only by choice 3
\* or a keyboard interrupt.
SavesAndLoopEnd ==
    /\ cli_pc = "save" =>
          /\ story = Story(user_prompt)
          /\ cli_config.original_prompt = user_prompt
          /\ answers.save = "y"
    /\ \A n \in 1..Len(saved) :
          saved[n].story = Story(saved[n].config.original_prompt)
    /\ mode = "interactive" =>
          cli_pc \in {"menu", "ask_prompt", "analyze", "clarify", "generate",
                      "ask_save", "save", "pause", "exited", "interrupted"}

\* C16: in both modes save_story is called only after generate_story
\* returned a non-empty story for the current prompt and the user confirmed;
\* a failed generation saves nothing; the loop ends only on choice 3 or a
\* keyboard interrupt; and a blank or whitespace-only prompt is never
\* analyzed or sent for generation.
Claim_C16 ==
    /\ SavesAndLoopEnd
    /\ cli_pc \in AnalyzedPlaces => Strip(user_prompt) # <<>>

(***************************************************************************)
(* The web application's /generate handler (src/webapp.py lines 85-124).   *)
(*                                                                         *)
(* request is the submitted form and file, web_pc the place the handler    *)
(* is at, web_prompt and web_config its locals user_prompt and config,     *)
(* web_story what generate_story returned, response the HTTP status it     *)
(* answers with (0: none yet), files what it saved into stories_dir.       *)
(***************************************************************************)
VARIABLES request, web_pc, web_prompt, web_config, web_story, response, files

webVars == <<request, web_pc, web_prompt, web_config, web_story, response, files>>

\* The form field prompt, the uploaded file (its name and content), and the
\* form fields length and genre as a client can submit them: left out, a
\* value the page offers, or any other string.
FormPrompts == {BlankPrompt, SpacesPrompt, TalePrompt, WizardPrompt}

NoFile == [filename |-> "", content |-> <<>>]

Uploads ==
    {NoFile,
     [filename |-> "idea.txt", content |-> SpacesPrompt],
     [filename |-> "idea.txt", content |-> <<" ">> \o MediumPrompt \o <<"\n">>],
     [filename |-> "idea.pdf", content |-> MediumPrompt]}

FormLengths == {"", "short", "epic", "novella"}

FormGenres == {"", "horror", "western"}

Requests ==
    [prompt : FormPrompts, story_file : Uploads,
     length : FormLengths, genre : FormGenres]

\* filename.endswith('.txt') for the names above.
EndsWithTxt(filename) == filename = "idea.txt"

WebInit ==
    /\ request \in Requests
    /\ web_pc = "request"
    /\ web_prompt = <<>>
    /\ web_config = StoryConfig
    /\ web_story = NoStory
    /\ response = 0
    /\ files = <<>>

\* Lines 87-101: the prompt of the form, replaced by the stripped content of
\* an uploaded .txt file that is not blank; 400 when it is empty.
ReadPrompt ==
    /\ web_pc = "request"
    /\ LET file == request.story_file
           text ==
               IF /\ file.filename # ""
                  /\ EndsWithTxt(file.filename)
                  /\ Strip(file.content) # <<>>
               THEN Strip(file.content)
               ELSE request.prompt
       IN  /\ web_prompt' = text
           /\ IF text = <<>>
              THEN web_pc' = "responded" /\ response' = 400
              ELSE web_pc' = "analyze" /\ UNCHANGED response
    /\ UNCHANGED <<request, web_config, web_story, files>>

\* Lines 103-104.
WebAnalyze ==
    /\ web_pc = "analyze"
    /\ web_config' = AnalyzePrompt(PromptAnalyzer, web_prompt)
    /\ web_pc' = "override"
    /\ UNCHANGED <<request, web_prompt, web_story, response, files>>

\* Lines 106-114: the submitted length and genre replace the analyzer's, and
\* an empty length becomes medium.
Override ==
    /\ web_pc = "override"
    /\ LET c1 == IF request.length # ""
                 THEN [web_config EXCEPT !.length = request.length]
                 ELSE web_config
           c2 == IF request.genre # ""
                 THEN [c1 EXCEPT !.genre = request.genre]
                 ELSE c1
           c3 == IF c2.length = ""
                 THEN [c2 EXCEPT !.length = "medium"]
                 ELSE c2
       IN  web_config' = c3
    /\ web_pc' = "generate"
    /\ UNCHANGED <<request, web_prompt, web_story, response, files>>

\* Line 116 with generate_story (storycraft.py lines 322-332): the word
\* target is looked up by length; a story goes on to be saved, None or an
\* empty content is answered with 500.
WebGenerate(result) ==
    /\ web_pc = "generate"
    /\ web_config.length \in DOMAIN lengths
    /\ web_story' = result
    /\ IF result.value = "story"
       THEN web_pc' = "save" /\ UNCHANGED response
       ELSE web_pc' = "responded" /\ response' = 500
    /\ UNCHANGED <<request, web_prompt, web_config, files>>

\* self.lengths[config.length] (storycraft.py lines 244 and 324) with a
\* length that is no key of self.lengths: KeyError, which nothing in the
\* handler catches; the server answers 500.
WebGenerateKeyError ==
    /\ web_pc = "generate"
    /\ web_config.length \notin DOMAIN lengths
    /\ web_pc' = "responded"
    /\ response' = 500
    /\ UNCHANGED <<request, web_prompt, web_config, web_story, files>>

\* Lines 117-122: save_story and the redirect to the saved story.
WebSave ==
    /\ web_pc = "save"
    /\ files' = Append(files, [story |-> web_story, config |-> web_config])
    /\ web_pc' = "responded"
    /\ response' = 302
    /\ UNCHANGED <<request, web_prompt, web_config, web_story>>

\* C15: whatever form is submitted, the record handed to generate_story and
\* save_story has its length in {short, medium, long, epic} and its genre in
\* the closed genre set, so the word target of its length is defined.
Claim_C15 ==
    web_pc \in {"generate", "save"} =>
        /\ web_config.length \in {"short", "medium", "long", "epic"}
        /\ web_config.genre \in
              {"fantasy", "sci-fi", "mystery", "horror", "romance", "adventure",
               "thriller", "historical", "comedy", "contemporary", "general"}
        /\ web_config.length \in DOMAIN lengths

(***************************************************************************)
(* Specifications.  Each runs one part of the program and leaves the       *)
(* variables of the other parts as they are.                               *)
(***************************************************************************)
allVars == <<vars, callVars, cliVars, webVars>>

AnalyzerIdle ==
    /\ prompt = <<>>
    /\ pc = "idle"
    /\ prompt_lower = <<>>
    /\ genre_scores = <<>>
    /\ config = StoryConfig

CallsIdle == analyzers = <<>> /\ frames = <<>> /\ heap = <<>>

WebIdle ==
    /\ request = [prompt |-> <<>>, story_file |-> NoFile, length |-> "",
                  genre |-> ""]
    /\ web_pc = "idle"
    /\ web_prompt = <<>>
    /\ web_config = StoryConfig
    /\ web_story = NoStory
    /\ response = 0
    /\ files = <<>>

CliIdle ==
    /\ mode = ""
    /\ cli_pc = "idle"
    /\ user_prompt = <<>>
    /\ cli_config = StoryConfig
    /\ answers = NoAnswers
    /\ story = NoStory
    /\ saved = <<>>

\* One call of analyze_prompt, statement by statement.
OneCallInit == Init /\ CallsIdle /\ CliIdle /\ WebIdle

OneCallNext ==
    \/ Start /\ UNCHANGED <<callVars, cliVars, webVars>>
    \/ ExtractGenre /\ UNCHANGED <<callVars, cliVars, webVars>>
    \/ ExtractLength /\ UNCHANGED <<callVars, cliVars, webVars>>
    \/ ExtractTone /\ UNCHANGED <<callVars, cliVars, webVars>>
    \/ ExtractProtagonist /\ UNCHANGED <<callVars, cliVars, webVars>>
    \/ ExtractSetting /\ UNCHANGED <<callVars, cliVars, webVars>>
    \/ Return /\ UNCHANGED <<callVars, cliVars, webVars>>

Spec == OneCallInit /\ [][OneCallNext]_allVars

\* Calls made one after the other, on either instance.
RepeatInit == CallsInit(MaxLog) /\ AnalyzerIdle /\ CliIdle /\ WebIdle

RepeatNext ==
    \/ \E c \in 1..MaxLog, a \in Analyzers, p \in CallPrompts :
           InTurn(c) /\ CallStart(c, a, p) /\ UNCHANGED <<vars, cliVars, webVars>>
    \/ \E c \in 1..MaxLog :
           InTurn(c) /\ CallExtractGenre(c) /\ UNCHANGED <<vars, cliVars, webVars>>
    \/ \E c \in 1..MaxLog :
           InTurn(c) /\ CallExtractLength(c) /\ UNCHANGED <<vars, cliVars, webVars>>
    \/ \E c \in 1..MaxLog :
           InTurn(c) /\ CallExtractTone(c) /\ UNCHANGED <<vars, cliVars, webVars>>
    \/ \E c \in 1..MaxLog :
           InTurn(c) /\ CallExtractProtagonist(c) /\ UNCHANGED <<vars, cliVars, webVars>>
    \/ \E c \in 1..MaxLog :
           InTurn(c) /\ CallExtractSetting(c) /\ UNCHANGED <<vars, cliVars, webVars>>
    \/ \E c \in 1..MaxLog :
           InTurn(c) /\ CallReturn(c) /\ UNCHANGED <<vars, cliVars, webVars>>

SpecRepeat == RepeatInit /\ [][RepeatNext]_allVars

\* Calls on the generator's instance, interleaved statement by statement.
SharedInit == CallsInit(MaxCalls) /\ AnalyzerIdle /\ CliIdle /\ WebIdle

SharedNext ==
    \/ \E c \in 1..MaxCalls, p \in CallPrompts :
           CallStart(c, "generator", p) /\ UNCHANGED <<vars, cliVars, webVars>>
    \/ \E c \in 1..MaxCalls : CallExtractGenre(c) /\ UNCHANGED <<vars, cliVars, webVars>>
    \/ \E c \in 1..MaxCalls : CallExtractLength(c) /\ UNCHANGED <<vars, cliVars, webVars>>
    \/ \E c \in 1..MaxCalls : CallExtractTone(c) /\ UNCHANGED <<vars, cliVars, webVars>>
    \/ \E c \in 1..MaxCalls : CallExtractProtagonist(c) /\ UNCHANGED <<vars, cliVars, webVars>>
    \/ \E c \in 1..MaxCalls : CallExtractSetting(c) /\ UNCHANGED <<vars, cliVars, webVars>>
    \/ \E c \in 1..MaxCalls : CallReturn(c) /\ UNCHANGED <<vars, cliVars, webVars>>

SpecShared == SharedInit /\ [][SharedNext]_allVars

\* The command-line program with every input the user can give.
CliProgramInit == CliInit /\ AnalyzerIdle /\ CallsIdle /\ WebIdle

CliNext ==
    \/ Main /\ UNCHANGED <<vars, callVars, webVars>>
    \/ \E choice \in {"1", "2", "3"} :
           Menu(choice) /\ UNCHANGED <<vars, callVars, webVars>>
    \/ \E p \in CliPrompts : AskPrompt(p) /\ UNCHANGED <<vars, callVars, webVars>>
    \/ CliAnalyze /\ UNCHANGED <<vars, callVars, webVars>>
    \/ \E length_choice \in {"1", "2", "3", "4"}, add_details \in {"y", "n"},
          protagonist \in CharacterAnswers, setting \in SettingAnswers :
           /\ AskClarifyingQuestions(length_choice, add_details,
                                     protagonist, setting)
           /\ UNCHANGED <<vars, callVars, webVars>>
    \/ \E result \in {NoStory, EmptyStory(user_prompt), Story(user_prompt)} :
           GenerateStory(result) /\ UNCHANGED <<vars, callVars, webVars>>
    \/ GenerateRaises /\ UNCHANGED <<vars, callVars, webVars>>
    \/ \E save \in {"y", "n"} : ConfirmSave(save) /\ UNCHANGED <<vars, callVars, webVars>>
    \/ SaveStory /\ UNCHANGED <<vars, callVars, webVars>>
    \/ Pause /\ UNCHANGED <<vars, callVars, webVars>>
    \/ KeyboardInterrupt /\ UNCHANGED <<vars, callVars, webVars>>

SpecCli == CliProgramInit /\ [][CliNext]_allVars

\* One POST to /generate with every form a client can submit.
WebRequestInit == WebInit /\ AnalyzerIdle /\ CallsIdle /\ CliIdle

WebNext ==
    \/ ReadPrompt /\ UNCHANGED <<vars, callVars, cliVars>>
    \/ WebAnalyze /\ UNCHANGED <<vars, callVars, cliVars>>
    \/ Override /\ UNCHANGED <<vars, callVars, cliVars>>
    \/ \E result \in {NoStory, EmptyStory(web_prompt), Story(web_prompt)} :
           WebGenerate(result) /\ UNCHANGED <<vars, callVars, cliVars>>
    \/ WebGenerateKeyError /\ UNCHANGED <<vars, callVars, cliVars>>
    \/ WebSave /\ UNCHANGED <<vars, callVars, cliVars>>

SpecWeb == WebRequestInit /\ [][WebNext]_allVars

====
